---- MODULE Spec2Model ----
(***************************************************************************)
(* Model of the WaitForSecret dynamic resource (src/utils/waitForSecret.ts) *)
(* WaitForSecretProvider.create polls the cluster API for a Secret with     *)
(* exponential backoff.  One step of the model is one run-to-completion     *)
(* segment of the async function, i.e. the code between two awaits.         *)
(*                                                                          *)
(* Optional JavaScript values (undefined or a value) are sequences of       *)
(* length 0 or 1: <<>> is undefined, <<v>> is the value v.  Strings that    *)
(* the code inspects are sequences of one-character strings.  A mapping     *)
(* (Secret data) is a set of <<key, value>> pairs.                          *)
(***************************************************************************)
EXTENDS Integers, Sequences, FiniteSets, TLC

VARIABLES
    args,           \* WaitForSecretArgs given to the resource (inputs of create)
    secret,         \* the cluster: <<>> while the Secret is absent, <<body>> once created
    pc,             \* per invocation: position of create
    attempt,        \* per invocation: loop variable attempt
    currentDelayMs, \* per invocation: local currentDelayMs
    lookupsIssued,  \* per invocation: number of readNamespacedSecret calls made
    lookupLog,      \* per invocation: kind of each lookup response, in order
    sleepLog,       \* per invocation: argument of each this.sleep call, in order
    lastResponse,   \* per invocation: <<>> or <<response of the latest lookup>>
    outs,           \* per invocation: <<>> or <<outs of the CreateResult>>
    sleepsDone,     \* per invocation: number of this.sleep promises that resolved
    thrown,         \* per invocation: <<>> or <<the Error create threw>>
    elapsedMs,      \* per invocation: Date.now() - startTime
    cancelled,      \* per invocation: the engine has asked to cancel the operation
    res             \* per resource of the Harbor component: its state in the deployment

\* The locals, results and bookkeeping of the invocations of create
waiterVars == <<pc, attempt, currentDelayMs, lookupsIssued, lookupLog, sleepLog,
                lastResponse, outs, sleepsDone, thrown, elapsedMs>>

vars == <<args, secret, cancelled, res, waiterVars>>

----------------------------------------------------------------------------
(* Bounds *)

MaxAttempts == 5
MaxInvocations == 2

Invocations == 1..MaxInvocations

----------------------------------------------------------------------------
(* Program constants *)

DefaultMaxRetries == 20
DefaultInitialDelayMs == 2000
DefaultMaxDelayMs == 15000

----------------------------------------------------------------------------
(* Strings and substring search *)

NotFoundText == <<"n","o","t"," ","f","o","u","n","d">>
MsgHttpRequestFailed ==
    <<"H","T","T","P"," ","r","e","q","u","e","s","t"," ","f","a","i","l","e","d">>
MsgForbidden == <<"F","o","r","b","i","d","d","e","n">>
MsgUserNotFound == <<"u","s","e","r"," ","n","o","t"," ","f","o","u","n","d">>

\* String.prototype.includes
Includes(s, sub) ==
    \E k \in 1..(Len(s) - Len(sub) + 1) : SubSeq(s, k, k + Len(sub) - 1) = sub

\* JavaScript truthiness of an optional string: undefined and "" are falsy
TruthyString(m) == m # <<>> /\ m[1] # <<>>

\* JavaScript truthiness of an optional number: undefined and 0 are falsy
TruthyNumber(n) == n # <<>> /\ n[1] # 0

Min(a, b) == IF a <= b THEN a ELSE b

----------------------------------------------------------------------------
(* The request *)

\* Variant: only an omitted value is replaced (inputs.x ?? d)
OrDefaultNullish(opt, d) == IF opt = <<>> THEN d ELSE opt[1]

\* inputs.x || d
OrDefault(opt, d) == IF TruthyNumber(opt) THEN opt[1] ELSE d

MaxRetriesOf(inputs) == OrDefault(inputs.maxRetries, DefaultMaxRetries)
InitialDelayMsOf(inputs) == OrDefault(inputs.initialDelayMs, DefaultInitialDelayMs)
MaxDelayMsOf(inputs) == OrDefault(inputs.maxDelayMs, DefaultMaxDelayMs)

Request(r, d0, dmax) ==
    [secretName |-> "harbor-registry-bucket", namespace |-> "harbor",
     maxRetries |-> r, initialDelayMs |-> d0, maxDelayMs |-> dmax]

\* Requests inside the contract: every budget from 1 to MaxAttempts with
\* delays that double up to the cap, and two budgets with delays that are
\* clamped below a doubling and that start at the cap.
ContractRequests ==
    { Request(<<n>>, <<1000>>, <<8000>>) : n \in 1..MaxAttempts }
      \cup { Request(<<5>>, <<1000>>, <<3000>>), Request(<<4>>, <<3000>>, <<3000>>) }

\* Requests that leave fields out or give them as 0, and requests outside
\* the contract: a negative budget, an initial delay above the cap.
OtherRequests ==
    { Request(<<2>>, <<>>, <<>>),
      Request(<<3>>, <<0>>, <<0>>),
      Request(<<-1>>, <<1000>>, <<8000>>),
      Request(<<3>>, <<5000>>, <<1000>>) }

RequestChoices == ContractRequests \cup OtherRequests

----------------------------------------------------------------------------
(* The cluster and the API client *)

EmptyMap == {}
CredentialData == { <<"AWS_ACCESS_KEY_ID", "QUtJQQ==">>,
                    <<"AWS_SECRET_ACCESS_KEY", "c2VjcmV0">> }

\* Bodies the asynchronous controller may give the Secret: with credentials,
\* with an empty data mapping, and without a data mapping.
SecretBodies == { [data |-> <<CredentialData>>],
                  [data |-> <<EmptyMap>>],
                  [data |-> <<>>] }

ApiError(code, msg) == [statusCode |-> code, message |-> msg]

\* readNamespacedSecret rejects with HttpError 404 while the Secret is absent
ErrSecretAbsent == ApiError(<<404>>, <<MsgHttpRequestFailed>>)

\* Failures the API client can raise whatever the state of the Secret
Faults == { ApiError(<<403>>, <<MsgForbidden>>),
            ApiError(<<401>>, <<MsgUserNotFound>>),
            ApiError(<<500>>, <<>>) }

Found(body) == [body |-> <<body>>, error |-> <<>>]
Failed(err) == [body |-> <<>>, error |-> <<err>>]

\* Outcomes of one readNamespacedSecret call against the cluster state s
Responses(s) ==
    (IF s = <<>> THEN {Failed(ErrSecretAbsent)} ELSE {Found(s[1])})
      \cup { Failed(e) : e \in Faults }

----------------------------------------------------------------------------
(* Pieces of WaitForSecretProvider.create *)

\* Variant: only the status code is inspected
IsNotFoundByStatus(error) == error.statusCode = <<404>>

\* error.statusCode === 404 || (error.message && error.message.includes("not found"))
IsNotFound(error) ==
    \/ error.statusCode = <<404>>
    \/ (TruthyString(error.message) /\ Includes(error.message[1], NotFoundText))

\* for (attempt = 1; ...
FirstAttempt == 1

\* Variant: the loop guard is strict
LoopGuardStrict(a, maxRetries) == a < maxRetries

\* ...; attempt <= maxRetries; ...
LoopGuard(a, maxRetries) == a <= maxRetries

\* Variant: the sleep is taken after every not-found lookup
ShouldSleepAlways(a, maxRetries) == a <= maxRetries

\* if (attempt < maxRetries)
ShouldSleep(a, maxRetries) == a < maxRetries

\* Variant: a delay above the maximum is kept
NextDelayKeepsLarger(delay, maxDelayMs) ==
    IF delay > maxDelayMs THEN delay ELSE Min(delay * 2, maxDelayMs)

\* currentDelayMs = Math.min(currentDelayMs * 2, maxDelayMs)
NextDelay(delay, maxDelayMs) == Min(delay * 2, maxDelayMs)

\* Variant: the data returned is not the data read
SecretDataFabricated(body) == CredentialData

\* response.body.data || {}
SecretData(body) == IF body.data = <<>> THEN EmptyMap ELSE body.data[1]

\* Variant: attempts are reported counting from zero
AttemptsRequiredFromZero(a) == a - 1

\* attemptsRequired: attempt
AttemptsRequired(a) == a

\* Variant: every failure of the lookup is retried
OutcomeRetryAll(resp, a, maxRetries) ==
    IF resp.error = <<>> THEN "Return"
    ELSE IF ShouldSleep(a, maxRetries) THEN "Sleep" ELSE "Continue"

\* Variant: the promise of sleep is never resolved
sleepNeverResolves(ms) == FALSE

\* new Promise((resolve) => setTimeout(resolve, ms)): the promise resolves,
\* whatever ms is
sleep(ms) == TRUE

\* The branch of the try/catch a response takes
Outcome(resp, a, maxRetries) ==
    IF resp.error = <<>> THEN "Return"
    ELSE IF IsNotFound(resp.error[1])
         THEN (IF ShouldSleep(a, maxRetries) THEN "Sleep" ELSE "Continue")
         ELSE "Throw"

\* How the lookup log records a response
Kind(resp) ==
    IF resp.error = <<>> THEN "Found"
    ELSE IF IsNotFound(resp.error[1]) THEN "NotFound" ELSE "Error"

----------------------------------------------------------------------------
(* The resources of the Harbor component *)

Resources == {"k8sProvider", "namespace", "harborAdminSecret", "databaseSecret",
              "harborBucketClaim", "obcSecret", "linkBucket", "postgresql", "chart"}

\* The resources the program of the stack declares around the component
StackResources ==
    {"keycloakProvider", "harborRealm", "harborClient", "harborGroupClientScope",
     "harborGroupMapping", "harbor", "vaultProvider", "harborProvider",
     "configAuthResource", "reaproject", "dockerhubregistry", "proxycacheproject",
     "aiaugmentedsoftwaredevproject"}

AllResources == Resources \cup StackResources

----------------------------------------------------------------------------
(* What create reports *)

\* (ms / 1000).toFixed(1), kept in tenths of a second
ElapsedSeconds(ms) == (ms + 50) \div 100

\* Variant: only the access key id is resolved
CreateResultAccessKeyOnly(inputs, body, a, ms) ==
    [id |-> <<inputs.namespace, inputs.secretName>>,
     secretName |-> inputs.secretName,
     namespace |-> inputs.namespace,
     secretData |-> { p \in SecretData(body) : p[1] = "AWS_ACCESS_KEY_ID" },
     attemptsRequired |-> AttemptsRequired(a),
     elapsedSeconds |-> ElapsedSeconds(ms)]

\* The CreateResult on success: id and outs
CreateResult(inputs, body, a, ms) ==
    [id |-> <<inputs.namespace, inputs.secretName>>,
     secretName |-> inputs.secretName,
     namespace |-> inputs.namespace,
     secretData |-> SecretData(body),
     attemptsRequired |-> AttemptsRequired(a),
     elapsedSeconds |-> ElapsedSeconds(ms)]

\* The Error thrown after the loop, by the values interpolated into its message
TimeoutError(inputs, ms) ==
    [kind |-> "Timeout",
     secretName |-> inputs.secretName,
     namespace |-> inputs.namespace,
     maxRetries |-> MaxRetriesOf(inputs),
     elapsedSeconds |-> ElapsedSeconds(ms)]

\* Variant: the cause is dropped from the Unexpected error
UnexpectedErrorWithoutCause(inputs, a, ms, cause) ==
    [kind |-> "Unexpected", secretName |-> inputs.secretName,
     namespace |-> inputs.namespace, attempt |-> a,
     maxRetries |-> MaxRetriesOf(inputs),
     elapsedSeconds |-> ElapsedSeconds(ms), message |-> <<>>]

\* The Error thrown from the catch block, by the values interpolated into its
\* message; message is error.message of the error caught
UnexpectedError(inputs, a, ms, cause) ==
    [kind |-> "Unexpected",
     secretName |-> inputs.secretName,
     namespace |-> inputs.namespace,
     attempt |-> a,
     maxRetries |-> MaxRetriesOf(inputs),
     elapsedSeconds |-> ElapsedSeconds(ms),
     message |-> cause.message]

----------------------------------------------------------------------------
(* State *)

Terminal == {"Succeeded", "TimedOut", "Fatal"}
Polling == {"AwaitLookup", "AwaitSleep"}

\* The state of the invocations before the engine calls create
WaiterInit ==
    /\ pc = [i \in Invocations |-> "Idle"]
    /\ attempt = [i \in Invocations |-> 0]
    /\ currentDelayMs = [i \in Invocations |-> 0]
    /\ lookupsIssued = [i \in Invocations |-> 0]
    /\ lookupLog = [i \in Invocations |-> <<>>]
    /\ sleepLog = [i \in Invocations |-> <<>>]
    /\ lastResponse = [i \in Invocations |-> <<>>]
    /\ outs = [i \in Invocations |-> <<>>]
    /\ sleepsDone = [i \in Invocations |-> 0]
    /\ thrown = [i \in Invocations |-> <<>>]
    /\ elapsedMs = [i \in Invocations |-> 0]
    /\ cancelled = [i \in Invocations |-> FALSE]

Init ==
    /\ args \in RequestChoices
    /\ secret = <<>>
    /\ WaiterInit
    /\ res = [n \in AllResources |-> "Pending"]

\* Variant: the body of the loop runs before the guard is tested
LoopTopBodyFirst(i, a) ==
    /\ pc' = [pc EXCEPT ![i] = "AwaitLookup"]
    /\ lookupsIssued' = [lookupsIssued EXCEPT ![i] = @ + 1]
    /\ UNCHANGED thrown

\* The loop guard with loop variable a, then either the awaited
\* readNamespacedSecret call or the Timeout throw after the loop.
LoopTop(i, a) ==
    IF LoopGuard(a, MaxRetriesOf(args))
    THEN /\ pc' = [pc EXCEPT ![i] = "AwaitLookup"]
         /\ lookupsIssued' = [lookupsIssued EXCEPT ![i] = @ + 1]
         /\ UNCHANGED thrown
    ELSE /\ pc' = [pc EXCEPT ![i] = "TimedOut"]
         /\ thrown' = [thrown EXCEPT ![i] = <<TimeoutError(args, elapsedMs'[i])>>]
         /\ UNCHANGED lookupsIssued

\* Variant: attempt is kept outside create and shared by all invocations
EnterLoopShared(i, a) ==
    /\ attempt' = [k \in Invocations |-> a]
    /\ LoopTop(i, a)

\* Top of the for loop: the loop variable takes the value a
EnterLoop(i, a) ==
    /\ attempt' = [attempt EXCEPT ![i] = a]
    /\ LoopTop(i, a)

\* Variant: the delay is not reset when an invocation starts after another
InitialDelayResumed(i) ==
    IF \E j \in Invocations : j # i /\ currentDelayMs[j] > 0
    THEN currentDelayMs[CHOOSE j \in Invocations : j # i /\ currentDelayMs[j] > 0]
    ELSE InitialDelayMsOf(args)

\* let currentDelayMs = initialDelayMs
InitialDelay(i) == InitialDelayMsOf(args)

\* The body of create up to its first await: the locals are set, the loop is entered.
Start(i) ==
    /\ pc[i] = "Idle"
    /\ currentDelayMs' = [currentDelayMs EXCEPT ![i] = InitialDelay(i)]
    /\ elapsedMs' = [elapsedMs EXCEPT ![i] = 0]
    /\ EnterLoop(i, FirstAttempt)
    /\ UNCHANGED <<lookupLog, sleepLog, lastResponse, outs, sleepsDone>>

\* The engine calls create; invocations of the resource follow one another.
Create(i) ==
    /\ \A j \in Invocations : j < i => pc[j] \in Terminal
    /\ Start(i)
    /\ UNCHANGED <<args, secret, cancelled, res>>

\* Variant: the sleep is started but not awaited
StartSleepUnawaited(i) ==
    /\ sleepLog' = [sleepLog EXCEPT ![i] = Append(@, currentDelayMs[i])]
    /\ currentDelayMs' = [currentDelayMs EXCEPT ![i] =
                            NextDelay(@, MaxDelayMsOf(args))]
    /\ EnterLoop(i, attempt[i] + 1)

\* await this.sleep(currentDelayMs): create is suspended on the timer
StartSleep(i) ==
    /\ sleepLog' = [sleepLog EXCEPT ![i] = Append(@, currentDelayMs[i])]
    /\ pc' = [pc EXCEPT ![i] = "AwaitSleep"]
    /\ UNCHANGED <<attempt, lookupsIssued, currentDelayMs, thrown>>

\* Variant: the first response is kept and examined again on later attempts
AwaitedResponseStale(i, resp) ==
    IF lastResponse[i] = <<>> THEN resp ELSE lastResponse[i][1]

\* What the await of readNamespacedSecret yields in this iteration
AwaitedResponse(i, resp) == resp

\* create runs on from the settled readNamespacedSecret call to its next
\* await, return or throw.
HandleResponse(i, settled) ==
    LET resp == AwaitedResponse(i, settled) IN
    /\ UNCHANGED <<sleepsDone, elapsedMs>>
    /\ lastResponse' = [lastResponse EXCEPT ![i] = <<resp>>]
    /\ lookupLog' = [lookupLog EXCEPT ![i] = Append(@, Kind(resp))]
    /\ LET o == Outcome(resp, attempt[i], MaxRetriesOf(args)) IN
       CASE o = "Return" ->
              /\ outs' = [outs EXCEPT ![i] =
                            <<CreateResult(args, resp.body[1], attempt[i], elapsedMs[i])>>]
              /\ pc' = [pc EXCEPT ![i] = "Succeeded"]
              /\ UNCHANGED <<attempt, lookupsIssued, sleepLog, currentDelayMs, thrown>>
         [] o = "Sleep" ->
              /\ StartSleep(i)
              /\ UNCHANGED outs
         [] o = "Continue" ->
              /\ EnterLoop(i, attempt[i] + 1)
              /\ UNCHANGED <<sleepLog, outs, currentDelayMs>>
         [] o = "Throw" ->
              /\ pc' = [pc EXCEPT ![i] = "Fatal"]
              /\ thrown' = [thrown EXCEPT ![i] =
                             <<UnexpectedError(args, attempt[i], elapsedMs[i],
                                               resp.error[1])>>]
              /\ UNCHANGED <<attempt, lookupsIssued, sleepLog, outs, currentDelayMs>>

\* readNamespacedSecret settles with one of the outcomes the cluster allows.
LookupReturns(i) ==
    /\ pc[i] = "AwaitLookup"
    /\ \E resp \in Responses(secret) : HandleResponse(i, resp)
    /\ UNCHANGED <<args, secret, cancelled, res>>

\* Variant: the delay is kept outside create and shared by all invocations
SleepReturnsSharedDelay(i) ==
    /\ pc[i] = "AwaitSleep"
    /\ sleep(sleepLog[i][Len(sleepLog[i])])
    /\ sleepsDone' = [sleepsDone EXCEPT ![i] = @ + 1]
    /\ elapsedMs' = [elapsedMs EXCEPT ![i] = @ + sleepLog[i][Len(sleepLog[i])]]
    /\ currentDelayMs' = [k \in Invocations |->
                            NextDelay(currentDelayMs[i], MaxDelayMsOf(args))]
    /\ EnterLoop(i, attempt[i] + 1)
    /\ UNCHANGED <<args, secret, cancelled, res, lookupLog, sleepLog, lastResponse, outs>>

\* The timer of this.sleep fires after the delay: the delay is doubled and
\* capped, attempt++.
SleepReturns(i) ==
    /\ pc[i] = "AwaitSleep"
    /\ sleep(sleepLog[i][Len(sleepLog[i])])
    /\ sleepsDone' = [sleepsDone EXCEPT ![i] = @ + 1]
    /\ elapsedMs' = [elapsedMs EXCEPT ![i] = @ + sleepLog[i][Len(sleepLog[i])]]
    /\ currentDelayMs' = [currentDelayMs EXCEPT ![i] =
                            NextDelay(@, MaxDelayMsOf(args))]
    /\ EnterLoop(i, attempt[i] + 1)
    /\ UNCHANGED <<args, secret, cancelled, res, lookupLog, sleepLog, lastResponse, outs>>

\* The controller of the ObjectBucketClaim creates the Secret.
ControllerCreatesSecret ==
    /\ secret = <<>>
    /\ \E body \in SecretBodies : secret' = <<body>>
    /\ UNCHANGED <<args, cancelled, res, waiterVars>>

Next ==
    \/ \E i \in Invocations : Create(i)
    \/ \E i \in Invocations : LookupReturns(i)
    \/ \E i \in Invocations : SleepReturns(i)
    \/ ControllerCreatesSecret

Spec == Init /\ [][Next]_vars

\* Every lookup and every sleep eventually returns.
FairSpec ==
    /\ Spec
    /\ \A i \in Invocations : WF_vars(LookupReturns(i)) /\ WF_vars(SleepReturns(i))

----------------------------------------------------------------------------
(* Vocabulary of the properties *)

\* The input constraints of the contract, read on the request as supplied:
\* maxAttempts >= 1, initialDelay > 0, maxDelay >= initialDelay.
ValidRequest(r) ==
    /\ r.maxRetries # <<>> => r.maxRetries[1] >= 1
    /\ r.initialDelayMs # <<>> => r.initialDelayMs[1] > 0
    /\ r.maxDelayMs # <<>> => r.maxDelayMs[1] >= 1
    /\ MaxDelayMsOf(r) >= InitialDelayMsOf(r)

RECURSIVE Pow2(_)
Pow2(n) == IF n <= 0 THEN 1 ELSE 2 * Pow2(n - 1)

RECURSIVE SumSeq(_)
SumSeq(s) == IF s = <<>> THEN 0 ELSE s[1] + SumSeq(Tail(s))

\* min(initialDelay * 2^k, maxDelay)
BackoffTerm(r, k) == Min(InitialDelayMsOf(r) * Pow2(k), MaxDelayMsOf(r))

\* sum_{k=0}^{n-2} min(initialDelay * 2^k, maxDelay)
RECURSIVE BackoffSum(_, _)
BackoffSum(r, n) == IF n < 2 THEN 0 ELSE BackoffTerm(r, n - 2) + BackoffSum(r, n - 1)

AllNotFound(log) == \A k \in 1..Len(log) : log[k] = "NotFound"

\* k-1 lookups answered not-found, then one that found the Secret
FoundAtLast(log) ==
    /\ log # <<>>
    /\ log[Len(log)] = "Found"
    /\ AllNotFound(SubSeq(log, 1, Len(log) - 1))

ScenarioRequest == Request(<<5>>, <<1000>>, <<8000>>)

----------------------------------------------------------------------------
(* Properties of the poll loop *)

\* C1: for a valid request, when the first k-1 lookups were answered not-found
\* and the k-th (k <= maxRetries) found the Secret, create has returned success
\* with attemptsRequired = k, 1 <= k <= maxRetries, and exactly k lookups have
\* been issued.
SuccessOnAttemptK ==
    \A i \in Invocations :
        ( /\ ValidRequest(args)
          /\ FoundAtLast(lookupLog[i])
          /\ Len(lookupLog[i]) <= MaxRetriesOf(args) )
        => /\ pc[i] = "Succeeded"
           /\ outs[i] # <<>>
           /\ outs[i][1].attemptsRequired = Len(lookupLog[i])
           /\ outs[i][1].attemptsRequired >= 1
           /\ outs[i][1].attemptsRequired <= MaxRetriesOf(args)
           /\ lookupsIssued[i] = Len(lookupLog[i])

\* The scenario of the contract: 5 attempts, 1000 ms, 8000 ms, found at the 3rd lookup
SuccessOnAttemptKWitness ==
    \E i \in Invocations :
        /\ args = ScenarioRequest
        /\ pc[i] = "Succeeded"
        /\ lookupLog[i] = <<"NotFound", "NotFound", "Found">>
        /\ sleepLog[i] = <<1000, 2000>>
        /\ outs[i][1].attemptsRequired = 3

FatalWithoutRetry ==
    \A i \in Invocations :
        /\ ( /\ lastResponse[i] # <<>>
             /\ lastResponse[i][1].error # <<>>
             /\ ~IsNotFound(lastResponse[i][1].error[1]) )
           => /\ pc[i] = "Fatal"
              /\ outs[i] = <<>>
              /\ lookupsIssued[i] = Len(lookupLog[i])
              /\ Len(sleepLog[i]) = Len(lookupLog[i]) - 1
              /\ attempt[i] = Len(lookupLog[i])
        /\ pc[i] = "Fatal"
           => /\ lastResponse[i] # <<>>
              /\ lastResponse[i][1].error # <<>>
              /\ ~IsNotFound(lastResponse[i][1].error[1])

\* An authorization failure on attempt 1 with budget left
FatalWithoutRetryWitness ==
    \E i \in Invocations :
        /\ MaxRetriesOf(args) > 1
        /\ pc[i] = "Fatal"
        /\ lastResponse[i] = <<Failed(ApiError(<<403>>, <<MsgForbidden>>))>>
        /\ lookupsIssued[i] = 1
        /\ sleepLog[i] = <<>>

\* C4: the i-th sleep of an invocation lasts min(initialDelay * 2^(i-1),
\* maxDelay); it is never negative, never above maxDelay and never shorter
\* than the sleep before it.
BackoffMonotonicity ==
    \A i \in Invocations :
        \A k \in 1..Len(sleepLog[i]) :
            /\ sleepLog[i][k] = BackoffTerm(args, k - 1)
            /\ sleepLog[i][k] >= 0
            /\ sleepLog[i][k] <= MaxDelayMsOf(args)
            /\ k > 1 => sleepLog[i][k] >= sleepLog[i][k - 1]

\* Within the input constraints the sleeps do follow that sequence.
BackoffWithinConstraints ==
    \A i \in Invocations :
        ValidRequest(args) =>
            \A k \in 1..Len(sleepLog[i]) :
                /\ sleepLog[i][k] = BackoffTerm(args, k - 1)
                /\ sleepLog[i][k] >= 0
                /\ sleepLog[i][k] <= MaxDelayMsOf(args)
                /\ k > 1 => sleepLog[i][k] >= sleepLog[i][k - 1]

\* C5: a request that violates maxAttempts >= 1, initialDelay > 0 or
\* maxDelay >= initialDelay is rejected before any lookup is issued: such an
\* invocation never polls, never sleeps and never succeeds.
InvalidRequestFailsFast ==
    \A i \in Invocations :
        ~ValidRequest(args) =>
            /\ lookupsIssued[i] = 0
            /\ sleepLog[i] = <<>>
            /\ pc[i] \notin Polling \cup {"Succeeded"}

\* C6: once an invocation has Succeeded, starting a further invocation with
\* the identical request issues no lookup and at once yields a result with the
\* same secretData.
IdempotentReinvocation ==
    [][ \A i, j \in Invocations :
          (pc[i] = "Succeeded" /\ pc[j] = "Idle" /\ pc'[j] # "Idle")
          => /\ lookupsIssued'[j] = 0
             /\ pc'[j] = "Succeeded"
             /\ outs'[j] # <<>>
             /\ outs'[j][1].secretData = outs[i][1].secretData ]_vars

\* C7: with n = maxRetries the time slept in one invocation never exceeds
\* sum_{k=0}^{n-2} min(initialDelay * 2^k, maxDelay) and equals it when the
\* invocation ends with the Timeout error.
WorstCaseBlockingBound ==
    \A i \in Invocations :
        /\ SumSeq(sleepLog[i]) <= BackoffSum(args, MaxRetriesOf(args))
        /\ pc[i] = "TimedOut"
             => SumSeq(sleepLog[i]) = BackoffSum(args, MaxRetriesOf(args))

\* Within the input constraints the bound holds and the Timeout path meets it.
BlockingBoundWithinConstraints ==
    \A i \in Invocations :
        ValidRequest(args) =>
            /\ SumSeq(sleepLog[i]) <= BackoffSum(args, MaxRetriesOf(args))
            /\ pc[i] = "TimedOut"
                 => SumSeq(sleepLog[i]) = BackoffSum(args, MaxRetriesOf(args))

\* C8: an invocation is in no state before create is called, then Polling,
\* Succeeded, TimedOut or Fatal; Polling is left only for Succeeded, TimedOut
\* or Fatal, and these three are absorbing: once create has returned or
\* thrown, the invocation's position, lookups, sleeps, attempt counter, delay
\* and result no longer change.
TerminalStatesAbsorbing ==
    [][ \A i \in Invocations :
          /\ pc'[i] \in {"Idle"} \cup Polling \cup Terminal
          /\ pc[i] \in Polling => pc'[i] \in Polling \cup Terminal
          /\ pc[i] \in Terminal
               => /\ pc'[i] = pc[i]
                  /\ lookupsIssued'[i] = lookupsIssued[i]
                  /\ lookupLog'[i] = lookupLog[i]
                  /\ sleepLog'[i] = sleepLog[i]
                  /\ attempt'[i] = attempt[i]
                  /\ currentDelayMs'[i] = currentDelayMs[i]
                  /\ lastResponse'[i] = lastResponse[i]
                  /\ outs'[i] = outs[i] ]_vars

\* A finished invocation has been followed by steps of a later invocation
TerminalStatesAbsorbingWitness ==
    \E i, j \in Invocations :
        /\ i < j
        /\ pc[i] = "Fatal"
        /\ pc[j] = "TimedOut"
        /\ lookupsIssued[i] = 1
        /\ lookupsIssued[j] = MaxRetriesOf(args)
        /\ MaxRetriesOf(args) > 1

\* C9: provided every lookup and every sleep eventually returns, an
\* invocation of create with a valid request that is polling eventually is
\* Succeeded, TimedOut or Fatal, and it never issues more than maxRetries
\* lookups.
Termination ==
    \A i \in Invocations :
        /\ (ValidRequest(args) /\ pc[i] \in Polling) ~> (pc[i] \in Terminal)
        /\ [](ValidRequest(args) => lookupsIssued[i] <= MaxRetriesOf(args))

\* An invocation that used its whole budget and ended
TerminationWitness ==
    \E i \in Invocations :
        /\ ValidRequest(args)
        /\ MaxRetriesOf(args) >= 3
        /\ lookupsIssued[i] = MaxRetriesOf(args)
        /\ pc[i] \in Terminal

\* C10: an invocation is Succeeded only when its latest lookup found the
\* Secret that exists in the cluster, and the secretData it returns is the
\* data of that lookup's response (the empty mapping when the Secret has no
\* data); no result exists for an invocation that is not Succeeded.
SuccessOnlyFromFoundLookup ==
    \A i \in Invocations :
        /\ pc[i] = "Succeeded"
           => /\ lastResponse[i] # <<>>
              /\ lastResponse[i][1].error = <<>>
              /\ lastResponse[i][1].body = secret
              /\ lookupLog[i][Len(lookupLog[i])] = "Found"
              /\ lookupsIssued[i] = Len(lookupLog[i])
              /\ outs[i] # <<>>
              /\ outs[i][1].secretData =
                   (IF lastResponse[i][1].body[1].data = <<>>
                    THEN {} ELSE lastResponse[i][1].body[1].data[1])
        /\ outs[i] # <<>> => pc[i] = "Succeeded"

\* Success on a retry, returning a Secret without a data mapping
SuccessOnlyFromFoundLookupWitness ==
    \E i \in Invocations :
        /\ pc[i] = "Succeeded"
        /\ Len(lookupLog[i]) >= 2
        /\ lastResponse[i][1].body = <<[data |-> <<>>]>>
        /\ outs[i][1].secretData = {}

----------------------------------------------------------------------------
(* C11 *)

\* The step in which invocation i of create begins
Begins(i) == pc[i] = "Idle" /\ pc'[i] # "Idle"

\* C11: no state persists across invocations. Whatever the earlier
\* invocations of the same request did and however they ended, the step that
\* begins an invocation leaves it with attempt = 1, delay = initialDelay, no
\* lookup answered, no sleep taken and no result, and (the budget being at
\* least one attempt) with its own first lookup issued; and it changes nothing
\* of the earlier invocations.
NoStateAcrossInvocations ==
    [][ \A i \in Invocations :
          Begins(i) =>
            /\ attempt'[i] = 1
            /\ currentDelayMs'[i] = InitialDelayMsOf(args)
            /\ lookupLog'[i] = <<>> /\ sleepLog'[i] = <<>>
            /\ outs'[i] = <<>> /\ lastResponse'[i] = <<>>
            /\ MaxRetriesOf(args) >= 1 =>
                 pc'[i] = "AwaitLookup" /\ lookupsIssued'[i] = 1
            /\ \A j \in Invocations \ {i} :
                 /\ attempt'[j] = attempt[j]
                 /\ currentDelayMs'[j] = currentDelayMs[j]
                 /\ lookupsIssued'[j] = lookupsIssued[j]
                 /\ pc'[j] = pc[j] /\ outs'[j] = outs[j] ]_vars

\* A second invocation has begun afresh after a first one that had backed
\* off twice and then ended.
NoStateAcrossInvocationsWitness ==
    \E i, j \in Invocations :
        /\ i < j
        /\ pc[i] \in Terminal
        /\ attempt[i] >= 3
        /\ currentDelayMs[i] > InitialDelayMsOf(args)
        /\ pc[j] = "AwaitLookup"
        /\ attempt[j] = 1
        /\ lookupsIssued[j] = 1
        /\ currentDelayMs[j] = InitialDelayMsOf(args)

----------------------------------------------------------------------------
(* C12 *)

\* Lookups of invocation i issued and not yet settled
LookupsOutstanding(i) == lookupsIssued[i] - Len(lookupLog[i])

\* Sleeps of invocation i started and not yet resolved
SleepsPending(i) == Len(sleepLog[i]) - sleepsDone[i]

\* C12: one invocation polls strictly sequentially. At most one lookup is
\* outstanding, none is outstanding while the invocation sleeps, and a lookup
\* is outstanding only when every earlier lookup has returned and every
\* backoff sleep started so far has finished.
SequentialPolling ==
    \A i \in Invocations :
        /\ LookupsOutstanding(i) \in {0, 1}
        /\ SleepsPending(i) \in {0, 1}
        /\ LookupsOutstanding(i) + SleepsPending(i) <= 1
        /\ LookupsOutstanding(i) = 1 <=> pc[i] = "AwaitLookup"
        /\ SleepsPending(i) = 1 <=> pc[i] = "AwaitSleep"
        /\ LookupsOutstanding(i) = 1 =>
             /\ Len(lookupLog[i]) = lookupsIssued[i] - 1
             /\ sleepsDone[i] = Len(sleepLog[i])

\* The third lookup is outstanding, after two lookups returned and two sleeps
\* finished.
SequentialPollingWitness ==
    \E i \in Invocations :
        /\ pc[i] = "AwaitLookup"
        /\ lookupsIssued[i] = 3
        /\ Len(lookupLog[i]) = 2
        /\ sleepsDone[i] = 2

----------------------------------------------------------------------------
(* Two resources waited for at once *)

\* The requests of the concurrent resources
ConcRequests ==
    { Request(<<4>>, <<1000>>, <<3000>>), Request(<<2>>, <<>>, <<>>) }

ConcInit ==
    /\ args \in ConcRequests
    /\ secret = <<>>
    /\ WaiterInit
    /\ res = [n \in AllResources |-> "Pending"]

\* The engine calls create of one resource while the creates of others run.
CreateConcurrently(i) ==
    /\ Start(i)
    /\ UNCHANGED <<args, secret, cancelled, res>>

ConcNext ==
    \/ \E i \in Invocations : CreateConcurrently(i)
    \/ \E i \in Invocations : LookupReturns(i)
    \/ \E i \in Invocations : SleepReturns(i)
    \/ ControllerCreatesSecret

ConcSpec == ConcInit /\ [][ConcNext]_vars

----------------------------------------------------------------------------
(* C13 *)

\* One more lookup of a create that runs alone: the lookup is answered by
\* kind k and create runs on, through the backoff sleep, to its next lookup
\* or to its end.
AloneStep(r, st, k) ==
    CASE k = "Found" -> [st EXCEPT !.pc = "Succeeded"]
      [] k = "Error" -> [st EXCEPT !.pc = "Fatal"]
      [] k = "NotFound" ->
           LET slept == st.attempt < MaxRetriesOf(r)
               a == st.attempt + 1
           IN [pc |-> IF a <= MaxRetriesOf(r) THEN "AwaitLookup" ELSE "TimedOut",
               attempt |-> a,
               delay |-> IF slept THEN Min(2 * st.delay, MaxDelayMsOf(r)) ELSE st.delay,
               sleeps |-> IF slept THEN Append(st.sleeps, st.delay) ELSE st.sleeps]

RECURSIVE AloneFrom(_, _, _)
AloneFrom(r, st, log) ==
    IF log = <<>> \/ st.pc # "AwaitLookup" THEN st
    ELSE AloneFrom(r, AloneStep(r, st, Head(log)), Tail(log))

\* Where a create of request r that runs alone stands once its lookups have
\* been answered as in log
Alone(r, log) ==
    AloneFrom(r, [pc |-> IF 1 <= MaxRetriesOf(r) THEN "AwaitLookup" ELSE "TimedOut",
                  attempt |-> 1, delay |-> InitialDelayMsOf(r), sleeps |-> <<>>],
              log)

\* An invocation at p with attempt counter n, delay d and sleeps taken sl
\* stands where it would stand running alone on the answers in log
AsAlone(r, p, n, d, sl, log) ==
    LET a == Alone(r, log) IN
    /\ sl = a.sleeps
    /\ IF p = "AwaitSleep"
       THEN /\ a.pc = "AwaitLookup"
            /\ a.attempt = n + 1
            /\ a.delay = Min(2 * d, MaxDelayMsOf(r))
       ELSE /\ a.pc = p
            /\ a.attempt = n
            /\ a.delay = d

\* A step of invocation i
StepOf(i) ==
    \/ pc'[i] # pc[i]
    \/ lookupsIssued'[i] # lookupsIssued[i]
    \/ lookupLog'[i] # lookupLog[i]

\* C13: waiter instances are isolated. Under every interleaving of the
\* lookups and sleeps of concurrent invocations, each invocation's attempt
\* counter, delay sequence and outcome are those of the same invocation
\* running alone against the same lookup responses, and no step of one
\* invocation changes the attempt counter or the delay of another.
WaitersIsolated ==
    [][ \A i \in Invocations :
          /\ pc'[i] # "Idle" =>
                AsAlone(args', pc'[i], attempt'[i], currentDelayMs'[i],
                        sleepLog'[i], lookupLog'[i])
          /\ \A j \in Invocations \ {i} :
                StepOf(i) =>
                  /\ attempt'[j] = attempt[j]
                  /\ currentDelayMs'[j] = currentDelayMs[j]
                  /\ sleepLog'[j] = sleepLog[j]
                  /\ pc'[j] = pc[j] ]_vars

\* Two invocations are polling at once, at different attempts and delays.
WaitersIsolatedWitness ==
    \E i, j \in Invocations :
        /\ pc[i] = "AwaitSleep" /\ attempt[i] = 3
        /\ pc[j] = "AwaitLookup" /\ attempt[j] = 2
        /\ currentDelayMs[i] # currentDelayMs[j]

----------------------------------------------------------------------------
(* The engine cancels a pending wait *)

\* The engine asks to cancel the operation of a resource whose create is
\* pending. The provider defines no handler for it, create takes no signal and
\* the timer of sleep is never cleared: nothing of create changes.
Cancel(i) ==
    /\ pc[i] \in Polling
    /\ ~cancelled[i]
    /\ cancelled' = [cancelled EXCEPT ![i] = TRUE]
    /\ UNCHANGED <<args, secret, res, waiterVars>>

CancelNext ==
    \/ \E i \in Invocations : Create(i)
    \/ \E i \in Invocations : LookupReturns(i)
    \/ \E i \in Invocations : SleepReturns(i)
    \/ \E i \in Invocations : Cancel(i)
    \/ ControllerCreatesSecret

CancelSpec == ConcInit /\ [][CancelNext]_vars

----------------------------------------------------------------------------
(* C14 *)

\* C14: a cancellation is observed at the next suspension boundary, the
\* backoff sleep: an invocation whose wait was cancelled and that is at the
\* backoff sleep issues no further lookup and does not go on consuming its
\* retry budget.
CancellationObserved ==
    [][ \A i \in Invocations :
          cancelled[i] /\ pc[i] = "AwaitSleep" =>
            /\ lookupsIssued'[i] = lookupsIssued[i]
            /\ attempt'[i] = attempt[i]
            /\ pc'[i] # "AwaitLookup" ]_vars

----------------------------------------------------------------------------
(* C15 *)

\* The value of a request field as the contract reads it: the default when
\* the field is omitted, the value supplied otherwise
Supplied(opt, default) == IF opt = <<>> THEN default ELSE opt[1]

\* C15: an omitted maxAttempts, initialDelay or maxDelay stands for 20
\* attempts, 2000 ms and 15000 ms, and every value supplied is the one the
\* invocation uses: it starts with the delay Supplied(initialDelayMs), issues
\* its first lookup exactly when 1 <= Supplied(maxRetries), and caps each
\* doubled delay at Supplied(maxDelayMs).
DefaultsAndOverrides ==
    [][ \A i \in Invocations :
          /\ Begins(i) =>
               /\ currentDelayMs'[i] = Supplied(args.initialDelayMs, 2000)
               /\ pc'[i] = "AwaitLookup" <=> 1 <= Supplied(args.maxRetries, 20)
          /\ sleepsDone'[i] # sleepsDone[i] =>
               currentDelayMs'[i] =
                 Min(2 * currentDelayMs[i], Supplied(args.maxDelayMs, 15000)) ]_vars

----------------------------------------------------------------------------
(* C16 *)

\* e, in tenths of a second, is the time t in milliseconds to one decimal
InTenths(e, t) == 100 * e - 50 <= t /\ t < 100 * e + 50

\* C16: every terminal path carries the identity of the target (name and
\* namespace), an attempt count and the elapsed time: the outs of a success
\* (with the attempt that found the Secret), the Timeout error (with
\* maxRetries) and the Unexpected error (with the attempt at which it
\* occurred), which also carries the message of the error it wraps.
TerminalDiagnostics ==
    \A i \in Invocations :
        /\ pc[i] = "Succeeded" =>
             /\ outs[i] # <<>> /\ thrown[i] = <<>>
             /\ outs[i][1].secretName = args.secretName
             /\ outs[i][1].namespace = args.namespace
             /\ outs[i][1].id = <<args.namespace, args.secretName>>
             /\ outs[i][1].attemptsRequired = lookupsIssued[i]
             /\ InTenths(outs[i][1].elapsedSeconds, SumSeq(sleepLog[i]))
        /\ pc[i] = "TimedOut" =>
             /\ thrown[i] # <<>> /\ outs[i] = <<>>
             /\ thrown[i][1].kind = "Timeout"
             /\ thrown[i][1].secretName = args.secretName
             /\ thrown[i][1].namespace = args.namespace
             /\ thrown[i][1].maxRetries = MaxRetriesOf(args)
             /\ InTenths(thrown[i][1].elapsedSeconds, SumSeq(sleepLog[i]))
        /\ pc[i] = "Fatal" =>
             /\ thrown[i] # <<>> /\ outs[i] = <<>>
             /\ thrown[i][1].kind = "Unexpected"
             /\ thrown[i][1].secretName = args.secretName
             /\ thrown[i][1].namespace = args.namespace
             /\ thrown[i][1].attempt = lookupsIssued[i]
             /\ InTenths(thrown[i][1].elapsedSeconds, SumSeq(sleepLog[i]))
             /\ thrown[i][1].message = lastResponse[i][1].error[1].message
        /\ pc[i] \notin Terminal => outs[i] = <<>> /\ thrown[i] = <<>>

\* One invocation ended Fatal at its second attempt, wrapping the message of
\* a 403; another ended TimedOut after time had passed.
TerminalDiagnosticsWitness ==
    \E i, j \in Invocations :
        /\ pc[i] = "Fatal"
        /\ thrown[i][1].attempt = 2
        /\ thrown[i][1].message = <<MsgForbidden>>
        /\ thrown[i][1].elapsedSeconds > 0
        /\ pc[j] = "TimedOut"
        /\ thrown[j][1].maxRetries >= 2
        /\ thrown[j][1].elapsedSeconds > 0

----------------------------------------------------------------------------
(* The deployment of the Harbor component *)

\* Variant: createExternalSecrets orders its resources after the namespace
ExternalSecretDependsOnNamespace(n) == {"namespace"}

\* opts.dependsOn of the ExternalSecrets made by createExternalSecrets:
\* their options are { provider: k8sProvider }
ExternalSecretDependsOn(n) == {}

\* Variant: only the namespace is waited for
DependsOnNamespace(n) ==
    IF n \in {"harborBucketClaim", "postgresql", "chart"} THEN {"namespace"} ELSE {}

\* opts.dependsOn of each resource
DependsOn(n) ==
    CASE n \in {"harborAdminSecret", "databaseSecret"} -> ExternalSecretDependsOn(n)
      [] n = "harborBucketClaim" -> {"namespace"}
      [] n = "linkBucket" -> {"harborBucketClaim"}
      [] n = "postgresql" -> {"namespace", "databaseSecret"}
      [] n = "chart" -> {"namespace", "postgresql", "harborAdminSecret",
                         "databaseSecret", "linkBucket", "harborBucketClaim"}
      [] OTHER -> {}

\* Variant: the Secret is read at the top level of the constructor
AppliesOnNothing(n) == {}

\* The resources whose outputs a resource is created under, in an apply:
\* pulumi.all([harborBucketClaim.id]).apply(() => Secret.get(...))
AppliesOn(n) == IF n = "obcSecret" THEN {"harborBucketClaim"} ELSE {}

\* Variant: the release is given the keys of the stack reference
InputsOfStackKeys(n) == {}

\* The resources whose outputs are among the inputs of a resource: the
\* values of the release read obcSecret.data
InputsOf(n) == IF n = "chart" THEN {"obcSecret"} ELSE {}

\* opts.provider of each resource
ProviderOf(n) ==
    CASE n \in Resources \ {"k8sProvider"} -> {"k8sProvider"}
      [] n \in {"harborRealm", "harborClient", "harborGroupClientScope",
                "harborGroupMapping"} -> {"keycloakProvider"}
      [] n \in {"configAuthResource", "reaproject", "dockerhubregistry",
                "proxycacheproject", "aiaugmentedsoftwaredevproject"} -> {"harborProvider"}
      [] OTHER -> {}

\* Variant: the provider of Harbor is declared to wait for the ConfigAuth
StackDependsOnCyclic(n) ==
    CASE n = "harborClient" -> {"harborRealm"}
      [] n \in {"harborGroupClientScope", "harborGroupMapping"} -> {"harborClient"}
      [] n = "harborProvider" -> {"harbor", "chart", "harborAdminSecret",
                                 "configAuthResource"}
      [] n = "configAuthResource" -> {"harborProvider", "harbor", "chart", "harborClient"}
      [] n \in {"reaproject", "dockerhubregistry", "proxycacheproject",
                "aiaugmentedsoftwaredevproject"} -> {"harbor"}
      [] OTHER -> {}

\* opts.dependsOn of each resource of the program of the stack
StackDependsOn(n) ==
    CASE n = "harborClient" -> {"harborRealm"}
      [] n \in {"harborGroupClientScope", "harborGroupMapping"} -> {"harborClient"}
      [] n = "harborProvider" -> {"harbor", "chart", "harborAdminSecret"}
      [] n = "configAuthResource" -> {"harborProvider", "harbor", "chart", "harborClient"}
      [] n \in {"reaproject", "dockerhubregistry", "proxycacheproject",
                "aiaugmentedsoftwaredevproject"} -> {"harbor"}
      [] OTHER -> {}

\* The resources whose outputs are among the inputs of a resource of the
\* program of the stack (realmId, clientScopeId, oidcClientId, registryId,
\* and the password read from Vault through vaultProvider)
StackInputsOf(n) ==
    CASE n \in {"harborClient", "harborGroupClientScope"} -> {"harborRealm"}
      [] n = "harborGroupMapping" -> {"harborRealm", "harborGroupClientScope"}
      [] n = "harborProvider" -> {"vaultProvider"}
      [] n = "configAuthResource" -> {"harborClient"}
      [] n = "proxycacheproject" -> {"dockerhubregistry"}
      [] OTHER -> {}

\* What the engine waits for before it begins a resource
Deps(n) ==
    DependsOn(n) \cup AppliesOn(n) \cup InputsOf(n) \cup ProviderOf(n)
      \cup StackDependsOn(n) \cup StackInputsOf(n)

\* The resources the engine reads instead of creating
ReadResources == {"obcSecret"}

GraphInit ==
    /\ args = Request(<<>>, <<>>, <<>>)
    /\ secret = <<>>
    /\ WaiterInit
    /\ res = [n \in AllResources |-> "Pending"]

\* The engine begins a resource once all it depends on has been created;
\* for Secret.get this issues the one read of the Secret.
Begin(n) ==
    /\ res[n] = "Pending"
    /\ \A d \in Deps(n) : res[d] = "Created"
    /\ res' = [res EXCEPT ![n] = "Creating"]
    /\ UNCHANGED <<args, secret, cancelled, waiterVars>>

\* The creation of a resource completes.
Complete(n) ==
    /\ n \notin ReadResources
    /\ res[n] = "Creating"
    /\ res' = [res EXCEPT ![n] = "Created"]
    /\ UNCHANGED <<args, secret, cancelled, waiterVars>>

\* The creation of a resource fails.
Fail(n) ==
    /\ res[n] = "Creating"
    /\ res' = [res EXCEPT ![n] = "Failed"]
    /\ UNCHANGED <<args, secret, cancelled, waiterVars>>

\* Secret.get settles: it yields the Secret if the cluster has it and fails
\* otherwise; it is not repeated.
ReadSettles(n) ==
    /\ n \in ReadResources
    /\ res[n] = "Creating"
    /\ res' = [res EXCEPT ![n] = IF secret = <<>> THEN "Failed" ELSE "Created"]
    /\ UNCHANGED <<args, secret, cancelled, waiterVars>>

\* The controller creates the Secret of an ObjectBucketClaim that exists.
ClaimControllerCreatesSecret ==
    /\ res["harborBucketClaim"] = "Created"
    /\ ControllerCreatesSecret

GraphNext ==
    \/ \E n \in Resources : Begin(n)
    \/ \E n \in Resources : Complete(n)
    \/ \E n \in Resources : Fail(n)
    \/ \E n \in Resources : ReadSettles(n)
    \/ ClaimControllerCreatesSecret

GraphSpec == GraphInit /\ [][GraphNext]_vars

----------------------------------------------------------------------------
(* C17 *)

----------------------------------------------------------------------------
(* C18 *)

----------------------------------------------------------------------------
(* C19 *)

\* C19: each attempt issues exactly one lookup and exactly one sleep
\* separates consecutive attempts: sleepsDone <= lookupsIssued <= sleepsDone + 1
\* (and once polling has begun lookupsIssued = sleepsDone + 1 = attempt); a
\* sleep is taken only directly after a not-found lookup of an attempt below
\* maxRetries; no sleep precedes the first lookup and none follows a found
\* lookup, a Fatal lookup or the not-found lookup of the final attempt.
OneLookupPerAttempt ==
    \A i \in Invocations :
        /\ sleepsDone[i] <= lookupsIssued[i]
        /\ lookupsIssued[i] <= sleepsDone[i] + 1
        /\ lookupsIssued[i] >= 1 => lookupsIssued[i] = sleepsDone[i] + 1
        /\ pc[i] \in Polling => lookupsIssued[i] = attempt[i]
        /\ Len(sleepLog[i]) <= Len(lookupLog[i])
        /\ \A k \in 1..Len(sleepLog[i]) :
             lookupLog[i][k] = "NotFound" /\ k < MaxRetriesOf(args)
        /\ \A k \in 1..Len(lookupLog[i]) :
             lookupLog[i][k] # "NotFound" \/ k >= MaxRetriesOf(args) =>
               /\ Len(sleepLog[i]) < k
               /\ lookupsIssued[i] = k

\* The budget of three attempts is used up: three lookups, two sleeps, none
\* after the last not-found lookup.
OneLookupPerAttemptWitness ==
    \E i \in Invocations :
        /\ pc[i] = "TimedOut"
        /\ lookupsIssued[i] = 3
        /\ sleepsDone[i] = 2
        /\ Len(sleepLog[i]) = 2

----------------------------------------------------------------------------
(* The race between the controller and the polling, with an accessor that
   does not fail *)

\* Outcomes of readNamespacedSecret when the API server answers from the
\* cluster state: the Secret if it exists, 404 if it does not
AnswersFromCluster(s) ==
    IF s = <<>> THEN {Failed(ErrSecretAbsent)} ELSE {Found(s[1])}

\* readNamespacedSecret settles with the answer of the API server.
LookupAnswered(i) ==
    /\ pc[i] = "AwaitLookup"
    /\ \E resp \in AnswersFromCluster(secret) : HandleResponse(i, resp)
    /\ UNCHANGED <<args, secret, cancelled, res>>

RaceNext ==
    \/ \E i \in Invocations : Create(i)
    \/ \E i \in Invocations : LookupAnswered(i)
    \/ \E i \in Invocations : SleepReturns(i)
    \/ ControllerCreatesSecret

RaceSpec == Init /\ [][RaceNext]_vars

----------------------------------------------------------------------------
(* C20 *)

----------------------------------------------------------------------------
(* C21 *)

\* The failures create retries, as the contract of the classification reads:
\* status 404, or a message containing "not found"
Retryable(e) ==
    \/ e.statusCode = <<404>>
    \/ e.message # <<>> /\ Includes(e.message[1], NotFoundText)

\* C21: a lookup failure is retried if and only if its statusCode is 404 or
\* its message contains "not found". A failure of either sort never produces
\* the Fatal error: below the last attempt create backs off with the current
\* delay, at the last attempt it ends TimedOut; this holds also for a failure
\* with a non-404 status whose message contains "not found". Every other
\* failure produces the Fatal error at once.
RetryableIffNotFound ==
    [][ \A i \in Invocations :
          lookupLog'[i] # lookupLog[i] /\ lastResponse'[i][1].error # <<>> =>
            LET e == lastResponse'[i][1].error[1] IN
            /\ pc'[i] = "Fatal" <=> ~Retryable(e)
            /\ e.statusCode = <<404>> => pc'[i] # "Fatal"
            /\ Retryable(e) =>
                 IF attempt[i] < MaxRetriesOf(args)
                 THEN /\ pc'[i] = "AwaitSleep"
                      /\ sleepLog'[i] = Append(sleepLog[i], currentDelayMs[i])
                 ELSE pc'[i] = "TimedOut" ]_vars

\* A 401 whose message contains "not found" was answered to the second
\* lookup while the Secret exists, and create is backing off.
RetryableIffNotFoundWitness ==
    \E i \in Invocations :
        /\ pc[i] = "AwaitSleep"
        /\ attempt[i] = 2
        /\ secret # <<>>
        /\ lastResponse[i] = <<Failed(ApiError(<<401>>, <<MsgUserNotFound>>))>>

----------------------------------------------------------------------------
(* C22 *)

\* The field names of a data mapping
Keys(m) == { p[1] : p \in m }

\* The values a data mapping holds under field name k
ValuesAt(m, k) == { p[2] : p \in { q \in m : q[1] = k } }

\* The data mapping of a Secret as the API returned it, nothing when the
\* Secret has none
Payload(body) == IF body.data = <<>> THEN {} ELSE body.data[1]

\* C22: the resolved fields are the payload of the Secret passed through
\* unchanged. On success secretData has exactly the field names of the data
\* mapping of the Secret the successful lookup returned, each with the value
\* it has there (none added, removed or altered); a Secret found without a
\* data mapping still gives a success, with secretData the empty mapping.
PayloadPassedThrough ==
    \A i \in Invocations :
        pc[i] = "Succeeded" =>
            LET returned == lastResponse[i][1].body[1]
                resolved == outs[i][1].secretData
            IN /\ Keys(resolved) = Keys(Payload(returned))
               /\ \A k \in Keys(resolved) :
                    ValuesAt(resolved, k) = ValuesAt(Payload(returned), k)
               /\ Cardinality(resolved) = Cardinality(Payload(returned))
               /\ returned.data = <<>> => resolved = {}

\* A first lookup found the Secret with its two credentials, both resolved
\* as stored.
PayloadPassedThroughWitness ==
    \E i \in Invocations :
        /\ pc[i] = "Succeeded"
        /\ Len(lookupLog[i]) = 1
        /\ Keys(outs[i][1].secretData) = {"AWS_ACCESS_KEY_ID", "AWS_SECRET_ACCESS_KEY"}
        /\ ValuesAt(outs[i][1].secretData, "AWS_SECRET_ACCESS_KEY") = {"c2VjcmV0"}

----------------------------------------------------------------------------
(* One create of a request at the edges of the contract *)

\* Requests with zeros, with fields omitted and with initialDelayMs above
\* maxDelayMs
EdgeRequests ==
    { Request(<<>>, <<>>, <<>>),
      Request(<<0>>, <<0>>, <<0>>),
      Request(<<0>>, <<1000>>, <<8000>>),
      Request(<<3>>, <<0>>, <<8000>>),
      Request(<<3>>, <<1000>>, <<0>>),
      Request(<<5>>, <<5000>>, <<1000>>),
      Request(<<4>>, <<3000>>, <<2000>>) }

EdgeInit ==
    /\ args \in EdgeRequests
    /\ secret = <<>>
    /\ WaiterInit
    /\ res = [n \in AllResources |-> "Pending"]

\* The engine calls create of the resource, once.
CreateOnce == Create(1)

EdgeNext ==
    \/ CreateOnce
    \/ \E i \in Invocations : LookupReturns(i)
    \/ \E i \in Invocations : SleepReturns(i)
    \/ ControllerCreatesSecret

EdgeSpec == EdgeInit /\ [][EdgeNext]_vars

----------------------------------------------------------------------------
(* C23 *)

\* The request supplies both delays, positive, the initial one the larger
InitialAboveMax(r) ==
    /\ r.initialDelayMs # <<>> /\ r.maxDelayMs # <<>>
    /\ r.maxDelayMs[1] > 0
    /\ r.initialDelayMs[1] > r.maxDelayMs[1]

----------------------------------------------------------------------------
(* C24 *)

\* A request value that is omitted or zero
ZeroOrOmitted(opt) == opt = <<>> \/ opt = <<0>>

\* The request with its zeros left out
WithoutZeros(r) ==
    [r EXCEPT !.maxRetries = IF @ = <<0>> THEN <<>> ELSE @,
              !.initialDelayMs = IF @ = <<0>> THEN <<>> ELSE @,
              !.maxDelayMs = IF @ = <<0>> THEN <<>> ELSE @]

\* C24: a value of 0 for maxRetries, initialDelayMs or maxDelayMs is
\* indistinguishable from omitting it. After every step create stands where
\* a create of the same request without its zeros stands on the same lookup
\* answers; in numbers: with maxRetries zero or omitted the Timeout comes
\* after 20 lookups, with initialDelayMs zero or omitted the first sleep
\* lasts 2000 ms, with maxDelayMs zero or omitted the delays double up to
\* 15000 ms.
ZeroIsOmitted ==
    \A i \in Invocations :
        pc[i] # "Idle" =>
            /\ AsAlone(WithoutZeros(args), pc[i], attempt[i], currentDelayMs[i],
                       sleepLog[i], lookupLog[i])
            /\ ZeroOrOmitted(args.maxRetries) =>
                 /\ lookupsIssued[i] >= 1 /\ lookupsIssued[i] <= 20
                 /\ pc[i] = "TimedOut" => lookupsIssued[i] = 20
            /\ ZeroOrOmitted(args.initialDelayMs) /\ sleepLog[i] # <<>> =>
                 sleepLog[i][1] = 2000
            /\ ZeroOrOmitted(args.maxDelayMs) =>
                 \A k \in 2..Len(sleepLog[i]) :
                     sleepLog[i][k] = Min(2 * sleepLog[i][k - 1], 15000)

\* maxRetries = 0, initialDelayMs = 0, maxDelayMs = 0 and a Secret that never
\* appears: 20 lookups, sleeps from 2000 ms up to 15000 ms, then the Timeout.
ZeroIsOmittedWitness ==
    \E i \in Invocations :
        /\ args = Request(<<0>>, <<0>>, <<0>>)
        /\ pc[i] = "TimedOut"
        /\ lookupsIssued[i] = 20
        /\ Len(sleepLog[i]) = 19
        /\ sleepLog[i][1] = 2000
        /\ sleepLog[i][19] = 15000
        /\ secret = <<>>

----------------------------------------------------------------------------
(* C25 *)

\* C25: with maxRetries < 0 create issues no lookup and takes no sleep and
\* fails with the Timeout error, whether or not the Secret exists: an
\* invocation of such a request is either not yet called or TimedOut, with no
\* lookup issued or answered, no sleep, no result, and the Timeout error
\* thrown at its first step.
NegativeBudgetTimesOut ==
    args.maxRetries # <<>> /\ args.maxRetries[1] < 0 =>
        \A i \in Invocations :
            /\ pc[i] \in {"Idle", "TimedOut"}
            /\ lookupsIssued[i] = 0 /\ lookupLog[i] = <<>>
            /\ sleepLog[i] = <<>> /\ sleepsDone[i] = 0
            /\ outs[i] = <<>>
            /\ pc[i] = "TimedOut" =>
                 /\ thrown[i] # <<>>
                 /\ thrown[i][1].kind = "Timeout"
                 /\ thrown[i][1].maxRetries = args.maxRetries[1]

\* With maxRetries = -1 two creates timed out without a lookup, and the
\* Secret exists.
NegativeBudgetTimesOutWitness ==
    /\ args.maxRetries = <<-1>>
    /\ secret # <<>>
    /\ \A i \in Invocations : i <= 2 => pc[i] = "TimedOut" /\ lookupsIssued[i] = 0

----------------------------------------------------------------------------
(* C26 *)

\* C26: the Harbor release does not start before the Namespace, the
\* PostgreSQL release, both ExternalSecrets, the link-harbor-bucket Job and
\* the ObjectBucketClaim have been created, and the PostgreSQL release does
\* not start before the Namespace and the database ExternalSecret have been
\* created.
ReleasesAfterPrerequisites ==
    /\ res["chart"] # "Pending" =>
         \A d \in {"namespace", "postgresql", "harborAdminSecret", "databaseSecret",
                   "linkBucket", "harborBucketClaim"} : res[d] = "Created"
    /\ res["postgresql"] # "Pending" =>
         \A d \in {"namespace", "databaseSecret"} : res[d] = "Created"

\* The Harbor release has been created, after the PostgreSQL release and
\* the link-harbor-bucket Job.
ReleasesAfterPrerequisitesWitness ==
    /\ res["chart"] = "Created"
    /\ res["postgresql"] = "Created"
    /\ res["linkBucket"] = "Created"

----------------------------------------------------------------------------
(* C28 *)

\* Everything a resource waits for, directly or through other resources
RECURSIVE Upstream(_, _)
Upstream(n, depth) ==
    IF depth = 0 THEN {}
    ELSE Deps(n) \cup UNION { Upstream(d, depth - 1) : d \in Deps(n) }

\* C28: the ObjectBucketClaim, the PostgreSQL release and the Harbor release
\* are ordered after the Namespace: none has begun unless the Namespace is
\* created. The two ExternalSecrets have no dependency on the Namespace,
\* direct or indirect, and can begin, once their provider is there, in
\* whatever state the Namespace is.
OnlyExternalSecretsUnordered ==
    /\ \A n \in {"harborBucketClaim", "postgresql", "chart"} :
         res[n] # "Pending" => res["namespace"] = "Created"
    /\ \A n \in {"harborAdminSecret", "databaseSecret"} :
         /\ "namespace" \notin Upstream(n, Cardinality(AllResources))
         /\ res[n] = "Pending" /\ res["k8sProvider"] = "Created" => ENABLED Begin(n)

\* An ExternalSecret has been created and the Namespace has not.
OnlyExternalSecretsUnorderedWitness ==
    /\ res["databaseSecret"] = "Created"
    /\ res["namespace"] # "Created"

----------------------------------------------------------------------------
(* The deployment of the whole stack, in which no creation fails by itself;
   the one read of the Secret still fails when the Secret is not there *)

StackNext ==
    \/ \E n \in AllResources : Begin(n)
    \/ \E n \in AllResources : Complete(n)
    \/ \E n \in AllResources : ReadSettles(n)
    \/ ClaimControllerCreatesSecret

StackSpec == GraphInit /\ [][StackNext]_vars

\* The engine begins every resource that is eligible, every operation it
\* began settles, and the controller of the claim does its work.
FairStackSpec ==
    /\ StackSpec
    /\ \A n \in AllResources :
         WF_vars(Begin(n)) /\ WF_vars(Complete(n)) /\ WF_vars(ReadSettles(n))
    /\ WF_vars(ClaimControllerCreatesSecret)

----------------------------------------------------------------------------
(* C27 *)

AllCreated == \A n \in AllResources : res[n] = "Created"

SomeFailed == \E n \in AllResources : res[n] = "Failed"

\* C27: the dependency edges of the stack and of the Harbor component form
\* no cycle: under a fair scheduler, unless the creation of some resource
\* fails, every declared resource (up to the Harbor projects and the
\* ConfigAuth) eventually becomes eligible and is created.
EveryResourceCreated == <>(AllCreated \/ SomeFailed)

\* The whole stack is created.
EveryResourceCreatedWitness ==
    /\ AllCreated
    /\ secret # <<>>

====
